---- MODULE Spec2Model ----
(***************************************************************************)
(* Session & data-synchronisation coordinator of the React client:         *)
(* the zustand Session Store with its persist middleware, the fetch-based  *)
(* request pipeline, the TanStack Router guard of the _authenticated       *)
(* subtree, the App render that copies the store's auth state into the     *)
(* router context, and the login / profile flows that drive them.          *)
(*                                                                         *)
(* A nullable JavaScript value is a sequence of length at most one:        *)
(* Null is <<>> and Some(x) is <<x>>.                                      *)
(***************************************************************************)
EXTENDS Integers, Sequences, FiniteSets, TLC

\* ------------------------------------------------------------------ bounds
MaxInflight == 2

\* minutes that pass in one step of the clock
TickLen == 5

\* ------------------------------------------------------------ value space
Null == <<>>
Some(x) == <<x>>

Ann == [id |-> "1", name |-> "Ann", email |-> "a@x.com"]
Bob == [id |-> "2", name |-> "Bob", email |-> "b@x.com"]
Users == {Ann, Bob}
Tokens == {"tok-1", "tok-2"}

\* Partial<User> arguments of updateUser; the profile form submits name and
\* email together, other callers may name any subset of the fields.
Partials ==
  { [name |-> "Zed"],
    [name |-> "Zed", email |-> "z@x.com"],
    [id |-> "9"] }

\* ---------------------------------------------------------------- state
VARIABLES
  token,            \* AuthState.token            : Null or Some(string)
  user,             \* AuthState.user             : Null or Some(User)
  isAuthenticated,  \* AuthState.isAuthenticated  : BOOLEAN
  storage,          \* localStorage['auth-storage'] : Null or Some(record of persisted fields)
  lastOp,           \* name of the last Session Store operation ("hydrate" after start-up)
  net,              \* fetch calls awaiting their response, per caller: Null or Some(request)
  cache,            \* QueryClient: per query key, its data and its fetch in progress
  ctxAuth,          \* router.options.context.auth, as the last App render set it
  location,         \* the router's committed location
  pending,          \* the navigation whose loaders are awaited: Null or Some(location)
  login,            \* LoginPage: state of the login mutation and of handleSubmit
  mutation,         \* AdminUsersPage: state of the user mutation last started
  ui,               \* UIStore: sidebarOpen, theme, locale and the store's actions
  uiStorage,        \* localStorage['ui-storage'] : Null or Some(parsed JSON text)
  dom,              \* the document root, the media query and i18n, as the effects left them
  ev                \* what the last step did: requests, settled response, guard verdict

storeVars == <<token, user, isAuthenticated, storage, lastOp>>
appVars == <<cache, ctxAuth, location, pending, login, mutation, ui, uiStorage, dom>>
vars == <<token, user, isAuthenticated, storage, lastOp, net, cache, ctxAuth,
          location, pending, login, mutation, ui, uiStorage, dom, ev>>

\* a step that issues no request and settles none
Quiet(op) == [op |-> op, sent |-> {}, settled |-> Null, nav |-> Null]

\* ------------------------------------------------------- Session Store
\* initial state of the store creator, before hydration
initialState == [token |-> Null, user |-> Null, isAuthenticated |-> FALSE]

\* a partialize that lets the whole state through
partializeAll(state) == state

\* partialize: (state) => ({ user: state.user })
partialize(state) == [user |-> state.user]

\* persist middleware, default merge: { ...currentState, ...persistedState }
merge(persisted, current) ==
  [f \in DOMAIN current |->
     IF f \in DOMAIN persisted THEN persisted[f] ELSE current[f]]

\* state the store holds after construction: the initial state with the
\* persisted record (if any) merged over it
hydrate(rec) ==
  IF rec = Null THEN initialState ELSE merge(rec[1], initialState)

\* { ...state.user, ...userData }
spread(u, userData) ==
  [f \in DOMAIN u \cup DOMAIN userData |->
     IF f \in DOMAIN userData THEN userData[f] ELSE u[f]]

\* set(partial) of the persist-wrapped store: commit, then write
\* partialize(state) to storage
commit(t, u, a) ==
  /\ token' = t
  /\ user' = u
  /\ isAuthenticated' = a
  /\ storage' = Some(partialize([token |-> t, user |-> u, isAuthenticated |-> a]))

setAuth(t, u) ==
  /\ commit(Some(t), Some(u), TRUE)
  /\ lastOp' = "setAuth"

\* a logout that drops the credential and leaves the rest
logoutTokenOnly ==
  /\ commit(Null, user, isAuthenticated)
  /\ lastOp' = "logout"

\* a logout that forgets the token
logoutKeepsToken ==
  /\ commit(token, Null, FALSE)
  /\ lastOp' = "logout"

logout ==
  /\ commit(Null, Null, FALSE)
  /\ lastOp' = "logout"

\* the spread without its null test: { ...state.user, ...userData }
updateUserUnguarded(userData) ==
  /\ commit(token,
            Some(IF user # Null THEN spread(user[1], userData) ELSE userData),
            isAuthenticated)
  /\ lastOp' = "updateUser"

updateUser(userData) ==
  /\ commit(token,
            IF user # Null THEN Some(spread(user[1], userData)) ELSE Null,
            isAuthenticated)
  /\ lastOp' = "updateUser"

\* page (re)load: the module is evaluated again, the store is created and
\* hydrated from localStorage; hydration itself writes nothing
boot(rec) ==
  /\ token' = hydrate(rec).token
  /\ user' = hydrate(rec).user
  /\ isAuthenticated' = hydrate(rec).isAuthenticated
  /\ lastOp' = "hydrate"


\* ------------------------------------------------------------ UI Store
Themes == {"light", "dark", "system"}

\* values of locale: the two the LocalePicker offers, a language i18next may
\* detect, and strings that read like JSON literals
Locales == {"en", "es", "en-US", "true", ""}

\* the languages i18next's detector reports
Detected == {"en", "es", "en-US"}

\* the functions the store creator puts in the state beside the three fields
uiActions == {"toggleSidebar", "setSidebarOpen", "setTheme", "setLocale"}

\* initial state of the store creator, before hydration
initialUI ==
  [sidebarOpen |-> TRUE, theme |-> "system", locale |-> "en",
   toggleSidebar |-> "function", setSidebarOpen |-> "function",
   setTheme |-> "function", setLocale |-> "function"]

\* the JSON text of a string
quote(str) == "\"" \o str \o "\""

\* JSON.stringify of one property of the state: a boolean for sidebarOpen, a
\* string for theme and locale
stringifyValue(f, v) ==
  IF f = "sidebarOpen" THEN (IF v THEN "true" ELSE "false") ELSE quote(v)

\* JSON.stringify({ state, version }): the persisted object, each property
\* held as its JSON text; properties whose value is a function are left out
stringify(state) ==
  [state |-> [f \in DOMAIN state \ uiActions |-> stringifyValue(f, state[f])],
   version |-> 0]

\* JSON.parse of one property's text
parseValue(text) ==
  IF text = "true" THEN TRUE
  ELSE IF text = "false" THEN FALSE
  ELSE CHOOSE str \in Themes \cup Locales : quote(str) = text

\* JSON.parse of the stored item
parse(item) ==
  [state |-> [f \in DOMAIN item.state |-> parseValue(item.state[f])],
   version |-> item.version]

\* a store that starts from its initial state whatever is persisted
hydrateUIFresh(item) == initialUI

\* state the UI store holds after construction: the initial state with the
\* parsed item (if any) merged over it
hydrateUI(item) ==
  IF item = Null THEN initialUI ELSE merge(parse(item[1]).state, initialUI)

\* set(partial) of the persist-wrapped store: commit, then write the whole
\* state (no partialize) to storage
commitUI(partial) ==
  LET next == [f \in DOMAIN ui |->
                 IF f \in DOMAIN partial THEN partial[f] ELSE ui[f]]
  IN  /\ ui' = next
      /\ uiStorage' = Some(stringify(next))

toggleSidebar == commitUI([sidebarOpen |-> ~ui.sidebarOpen])

setSidebarOpen(open) == commitUI([sidebarOpen |-> open])

setTheme(theme) == commitUI([theme |-> theme])

setLocale(locale) == commitUI([locale |-> locale])

\* --------------------------------------------- theme and locale effects
\* the global environment of a freshly loaded page: the document root has no
\* 'dark' class, no listener is attached to the colour-scheme media query, no
\* effect has run for any theme, the application has set neither the
\* document's lang attribute nor the i18n language, nothing is painted
freshDom(systemDark) ==
  [dark |-> FALSE, systemDark |-> systemDark, listener |-> FALSE,
   applied |-> Null, lang |-> Null, language |-> Null, painted |-> FALSE]

\* an effect whose cleanup leaves the listener attached
cleanupNothing(d) == d

\* the cleanup the previous run of the effect returned:
\* mql.removeEventListener('change', apply)
cleanup(d) == [d EXCEPT !.listener = FALSE]

\* apply: root.classList.toggle('dark', mql.matches)
apply(d) == [d EXCEPT !.dark = d.systemDark]

\* the body of useThemeEffect's effect for the theme it was rendered with
themeEffect(d, theme) ==
  IF theme = "light" THEN [d EXCEPT !.dark = FALSE, !.applied = Some(theme)]
  ELSE IF theme = "dark" THEN [d EXCEPT !.dark = TRUE, !.applied = Some(theme)]
  ELSE [apply(d) EXCEPT !.listener = TRUE, !.applied = Some(theme)]

\* whether the effect's body leaves the 'dark' class on the root for a theme
prefersDark(theme, systemDark) ==
  theme = "dark" \/ (theme = "system" /\ systemDark)

\* the second effect of useLocaleEffect: i18n.changeLanguage(locale) and
\* document.documentElement.lang = locale
localeEffect(d, locale) ==
  [d EXCEPT !.language = Some(locale), !.lang = Some(locale)]

\* ------------------------------------------------ persisted records
\* records left in localStorage by another build of the application, or put
\* there by hand: they carry fields besides user
ForeignRecords ==
  { [user |-> Some(Ann), token |-> Some("tok-1"), isAuthenticated |-> TRUE],
    [user |-> Some(Bob), token |-> Some("tok-2")],
    [user |-> Some(Ann), isAuthenticated |-> TRUE],
    [user |-> Null, token |-> Some("tok-1"), isAuthenticated |-> FALSE] }

\* ----------------------------------------------------- Request Pipeline
\* header names are case-insensitive: Headers keeps them in lower case
NoHeaders == <<>>
CallerHeaders ==
  { NoHeaders,
    ("x-request-id" :> "r1"),
    ("authorization" :> "Basic abc") }

Endpoints == {"/users", "/users/9"}

\* JavaScript truthiness of `token` in `token ? {...} : {}`
truthy(tok) == tok # Null /\ tok[1] # ""

\* the token as it was when the module was evaluated
capturedToken == initialState.token

\* useAuthStore.getState().token, read inside request()
storeToken == token

\* new Headers({ 'Content-Type': ..., ...(token ? { Authorization } : {}) })
\* followed by headers.set(key, value) for every caller-supplied header
buildHeaders(tok, callerHeaders) ==
  LET auth == IF truthy(tok)
              THEN ("authorization" :> ("Bearer " \o tok[1]))
              ELSE NoHeaders
      base == ("content-type" :> "application/json") @@ auth
  IN  [h \in DOMAIN base \cup DOMAIN callerHeaders |->
         IF h \in DOMAIN callerHeaders THEN callerHeaders[h] ELSE base[h]]

\* the fetch call request() makes: the first half of request(), up to the await
fetchCall(method, endpoint, callerHeaders) ==
  [method |-> method, endpoint |-> endpoint, caller |-> callerHeaders,
   headers |-> buildHeaders(storeToken, callerHeaders)]

\* response bodies: JSON text with its parsed value, or text response.json()
\* rejects on (an empty body, an HTML error page)
JsonBody(v) == [json |-> TRUE, value |-> v]
NotJson == [json |-> FALSE, value |-> <<>>]

Responses ==
  { [status |-> 200, statusText |-> "OK", body |-> JsonBody([id |-> "9"])],
    [status |-> 204, statusText |-> "No Content", body |-> NotJson],
    [status |-> 404, statusText |-> "Not Found",
       body |-> JsonBody([message |-> "not found"])],
    [status |-> 401, statusText |-> "",
       body |-> JsonBody([message |-> "Invalid credentials"])],
    [status |-> 500, statusText |-> "Internal Server Error", body |-> NotJson] }

\* what fetch() gives back: a response, or Null when none was received
Arrivals == {Null} \cup {Some(r) : r \in Responses}

\* Response.ok
ok(r) == r.status >= 200 /\ r.status <= 299

\* an ApiError built from the body's message instead of the status text
ApiErrorBodyMessage(status, message, data) ==
  [kind |-> "ApiError", status |-> status,
   message |-> IF data # Null /\ "message" \in DOMAIN data[1]
               THEN data[1].message ELSE message,
   data |-> data]

\* class ApiError: (status, message, data)
ApiError(status, message, data) ==
  [kind |-> "ApiError", status |-> status, message |-> message, data |-> data]

\* the second half of request(), from the await on: how the promise settles
settle(arrival) ==
  IF arrival = Null
  THEN [kind |-> "TypeError", status |-> 0, message |-> "Failed to fetch", data |-> Null]
  ELSE LET r == arrival[1] IN
       IF ~ok(r)
       THEN ApiError(r.status, r.statusText,
                     IF r.body.json THEN Some(r.body.value) ELSE Null)
       ELSE IF r.body.json
            THEN [kind |-> "resolved", status |-> r.status, message |-> "",
                  data |-> Some(r.body.value)]
            ELSE [kind |-> "SyntaxError", status |-> r.status,
                  message |-> "Unexpected end of JSON input", data |-> Null]

Callers == {"api", "login", "mutation"}

\* ---------------------------------------------------- Remote Data Cache
\* queryKey of dashboardQueryOptions, usersQueryOptions, userQueryOptions('7')
\* and userPostsQueryOptions('7')
Keys == { <<"dashboard">>, <<"users">>, <<"users", "7">>, <<"users", "7", "posts">> }

\* the endpoint each queryFn passes to api.get
endpointOf(k) ==
  CASE k = <<"dashboard">> -> "/dashboard"
    [] k = <<"users">> -> "/users"
    [] k = <<"users", "7">> -> "/users/7"
    [] OTHER -> "/users/7/posts"

\* defaultOptions.queries.retry
retry == 1

\* defaultOptions.queries.staleTime, in minutes
staleTime == 5

\* gcTime is not set: the library's default, in minutes
gcTime == 5

\* useMutation is given no retry option: the library's default
mutationRetry == 0

\* a query: whether it holds data, whether its fetch is in flight, the
\* failures of its last fetch, whether a retry is waiting for its delay,
\* whether it was invalidated since its data arrived, the minutes since its
\* data arrived, the minutes its garbage-collection timer has run, and
\* whether a mounted view observes it
emptyEntry ==
  [data |-> FALSE, fetching |-> FALSE, failureCount |-> 0, retryDue |-> FALSE,
   invalidated |-> FALSE, age |-> 0, idle |-> 0, observers |-> FALSE]

inflight ==
  Cardinality({c \in Callers : net[c] # Null})
    + Cardinality({k \in Keys : cache[k].fetching})

\* fetchStatus is 'idle': no fetch in flight and no retry waiting
idleFetch(e) == ~e.fetching /\ ~e.retryDue

\* a staleness test that never looks at the clock
isStaleByFlagOnly(e) == ~e.data \/ e.invalidated

\* Query.isStaleByTime(staleTime)
isStale(e) == ~e.data \/ e.invalidated \/ e.age >= staleTime

\* an ensure that starts a fetch although one is under way
needsFetchIgnoringFlight(e) == ~e.data

\* an ensure that revalidates stale data (revalidateIfStale)
needsFetchIfStale(e) == isStale(e) /\ idleFetch(e)

\* ensureQueryData starts the queryFn only for a query with no data and no
\* fetch already under way
needsFetch(e) == ~e.data /\ idleFetch(e)

\* queryClient.ensureQueryData(options): cached data is returned as it is,
\* stale or not; a fetch under way is joined; otherwise the queryFn is called
ensureQueryData(e) ==
  IF needsFetch(e)
  THEN [e EXCEPT !.fetching = TRUE, !.failureCount = 0]
  ELSE e

\* the fetch call the queryFn of key k makes: api.get(endpoint)
queryFn(k) == fetchCall("GET", endpointOf(k), NoHeaders)

\* the query is neither fetching nor waiting: its promise has settled
settled(e) == idleFetch(e)

\* the retryer's test after a failed queryFn: retry is a number, the error
\* is not looked at
shouldRetry(failureCount, error) == failureCount < retry

\* a mutation retried like a query
shouldRetryMutationAsQuery(failureCount, error) == failureCount < retry

\* the same test for a failed mutationFn
shouldRetryMutation(failureCount, error) == failureCount < mutationRetry

\* an observer that never fetches on mounting (refetchOnMount: false)
mountFetchesNever(e) == FALSE

\* QueryObserver.onSubscribe of a view that mounts: the first observer stops
\* the garbage-collection timer; stale data is refetched in the background
\* (refetchOnMount), a fetch under way is joined
mountFetches(e) == ~e.observers /\ e.data /\ isStale(e) /\ idleFetch(e)

subscribe(e) ==
  IF e.observers THEN e
  ELSE IF mountFetches(e)
       THEN [e EXCEPT !.observers = TRUE, !.idle = 0, !.fetching = TRUE,
                      !.failureCount = 0]
       ELSE [e EXCEPT !.observers = TRUE, !.idle = 0]

\* Query.removeObserver of a view that unmounts: the timer starts again
unsubscribe(e) ==
  IF e.observers THEN [e EXCEPT !.observers = FALSE, !.idle = 0] ELSE e

\* a match of whole keys only (exact: true)
isExactKey(p, k) == p = k

\* partialMatchKey(queryKey, prefix)
isPrefix(p, k) == Len(p) <= Len(k) /\ SubSeq(k, 1, Len(p)) = p

\* the query exists in the QueryCache
exists(e) == e # emptyEntry

\* an invalidation that only flags (refetchType: 'none')
refetchesNone(e) == FALSE

\* invalidateQueries refetches the matching queries that are observed; with
\* cancelRefetch, a fetch under way for a query that holds data is dropped
\* and the queryFn called again, for one without data the fetch is joined
refetches(e) == e.observers /\ (idleFetch(e) \/ e.data)

\* queryClient.invalidateQueries({ queryKey: prefix }) on one query
invalidate(e) ==
  IF ~exists(e) THEN e
  ELSE IF refetches(e)
       THEN [e EXCEPT !.invalidated = TRUE, !.fetching = TRUE,
                      !.retryDue = FALSE, !.failureCount = 0]
       ELSE [e EXCEPT !.invalidated = TRUE]

\* ------------------------------------------------------------- Router
Loc(pathname, search) == [pathname |-> pathname, search |-> search]
NoSearch == <<>>
Home == Loc("/", NoSearch)
LoginPath == "/login"

\* locations a link, a typed URL or a navigate() call asks for
Targets ==
  { Loc(LoginPath, NoSearch),
    Loc("/dashboard", NoSearch),
    Loc("/dashboard", [tab |-> "1"]),
    Loc("/admin/users", NoSearch),
    Loc("/settings/profile", NoSearch) }

\* locations visited once signed in: the home page, the dashboard and the
\* administration
CacheTargets ==
  { Home,
    Loc("/dashboard", NoSearch),
    Loc("/admin/users", NoSearch) }

\* the administration and the page of the user it edits
AdminTargets ==
  { Loc("/admin/users", NoSearch),
    Loc("/users/7", NoSearch) }

\* routes created under '/_authenticated'
protected(pathname) ==
  pathname \in {"/dashboard", "/admin/users", "/settings", "/settings/profile"}

\* the query keys the route's loader passes to ensureQueryData
loaderKeys(pathname) ==
  CASE pathname = "/dashboard" -> { <<"dashboard">> }
    [] pathname = "/admin/users" -> { <<"users">> }
    [] pathname = "/users" -> { <<"users">> }
    [] pathname = "/users/7" -> { <<"users", "7">>, <<"users", "7", "posts">> }
    [] OTHER -> {}

\* the route's component renders when its loader resolved, its errorComponent
\* when the loader rejected: every key the loader ensured holds data
renders(c, pathname) == \A k \in loaderKeys(pathname) : c[k].data

\* the keys whose query a view of the committed route refetches on mounting;
\* each view reads with useSuspenseQuery the keys its loader ensured
mounted(c, pathname) ==
  {k \in loaderKeys(pathname) : renders(c, pathname) /\ mountFetches(c[k])}

\* the committed route's views subscribe, those of the route left unsubscribe
commitViews(c, pathname) ==
  [k \in Keys |->
     IF renders(c, pathname) /\ k \in loaderKeys(pathname)
     THEN subscribe(c[k])
     ELSE unsubscribe(c[k])]

\* location.href: pathname followed by the search string
searchStr(search) ==
  IF DOMAIN search = {} THEN ""
  ELSE LET k == CHOOSE k \in DOMAIN search : TRUE
       IN  "?" \o k \o "=" \o search[k]

href(loc) == loc.pathname \o searchStr(loc.search)

\* the auth object App passes to RouterProvider
authContext(isAuth, u) ==
  [isAuthenticated |-> isAuth,
   user |-> IF u # Null THEN Some([id |-> u[1].id, name |-> u[1].name]) ELSE Null]

\* a guard whose redirect remembers the path and drops the search string
beforeLoadPathOnly(context, loc) ==
  IF ~context.auth.isAuthenticated
  THEN Some(Loc(LoginPath, [redirect |-> loc.pathname]))
  ELSE Null

\* Route('/_authenticated').beforeLoad: Null when it returns, Some(location)
\* when it throws redirect(...)
beforeLoad(context, loc) ==
  IF ~context.auth.isAuthenticated
  THEN Some(Loc(LoginPath, [redirect |-> href(loc)]))
  ELSE Null

\* the router loads `to`: the guard of the protected subtree first, then the
\* loaders of the matched route; the location is committed once they settle
\* and the views of the committed route mount
load(to) ==
  LET thrown == IF protected(to.pathname)
                THEN beforeLoad([auth |-> ctxAuth], to)
                ELSE Null
      keys == IF thrown = Null THEN loaderKeys(to.pathname) ELSE {}
      started == {k \in keys : needsFetch(cache[k])}
      after == [k \in Keys |->
                  IF k \in keys THEN ensureQueryData(cache[k]) ELSE cache[k]]
      dest == IF thrown # Null THEN thrown[1] ELSE to
      commits == thrown # Null \/ \A k \in keys : settled(after[k])
      refetched == IF commits THEN mounted(after, dest.pathname) ELSE {}
  IN  /\ inflight + Cardinality(started) + Cardinality(refetched) <= MaxInflight
      /\ IF commits
         THEN /\ location' = dest
              /\ pending' = Null
              /\ cache' = commitViews(after, dest.pathname)
         ELSE /\ location' = location
              /\ pending' = Some(to)
              /\ cache' = after
      /\ ev' = [Quiet("navigate") EXCEPT
                  !.sent = {queryFn(k) : k \in started \cup refetched},
                  !.nav = Some([to |-> to,
                                verdict |-> IF thrown # Null THEN "DENIED" ELSE "ALLOWED",
                                loaders |-> keys,
                                fetched |-> started,
                                refetched |-> refetched])]

\* a link is followed or a URL is entered
Navigate ==
  /\ \E to \in Targets : load(to)
  /\ UNCHANGED <<storeVars, net, ctxAuth, login, mutation, ui, uiStorage, dom>>

\* the awaited loaders have settled: the pending location is committed
CommitNav ==
  /\ pending # Null
  /\ \A k \in loaderKeys(pending[1].pathname) : settled(cache[k])
  /\ inflight + Cardinality(mounted(cache, pending[1].pathname)) <= MaxInflight
  /\ location' = pending[1]
  /\ pending' = Null
  /\ cache' = commitViews(cache, pending[1].pathname)
  /\ ev' = [Quiet("commit") EXCEPT
              !.sent = {queryFn(k) : k \in mounted(cache, pending[1].pathname)}]
  /\ UNCHANGED <<storeVars, net, ctxAuth, login, mutation, ui, uiStorage, dom>>

\* App renders again after a store change and hands the new auth object to
\* RouterProvider
Propagate ==
  /\ ctxAuth # authContext(isAuthenticated, user)
  /\ ctxAuth' = authContext(isAuthenticated, user)
  /\ ev' = Quiet("render")
  /\ UNCHANGED <<storeVars, net, cache, location, pending, login, mutation, ui, uiStorage, dom>>

\* what GET /dashboard and GET /users answer
QueryArrivals == {a \in Arrivals : a = Null \/ a[1].status \in {200, 404}}

\* the response of a query's fetch arrives: data is stored and the query is
\* fresh again, or the retryer decides between a retry and the error state.
\* The error state flags existing data as invalidated; a query without data
\* is stale whatever the flag says, and keeps it as it was.
QuerySettles ==
  /\ \E k \in Keys, a \in QueryArrivals :
       LET e == cache[k]
           o == settle(a)
       IN  /\ e.fetching
           /\ cache' = [cache EXCEPT ![k] =
                 IF o.kind = "resolved"
                 THEN [e EXCEPT !.data = TRUE, !.fetching = FALSE,
                                !.failureCount = 0, !.invalidated = FALSE,
                                !.age = 0, !.idle = 0]
                 ELSE IF shouldRetry(e.failureCount, o)
                      THEN [e EXCEPT !.fetching = FALSE, !.retryDue = TRUE,
                                     !.failureCount = e.failureCount + 1]
                      ELSE [e EXCEPT !.fetching = FALSE,
                                     !.failureCount = e.failureCount + 1,
                                     !.invalidated = e.invalidated \/ e.data,
                                     !.idle = 0]]
           /\ ev' = [Quiet("querySettles") EXCEPT
                       !.settled = Some([arrival |-> a, outcome |-> o])]
  /\ UNCHANGED <<storeVars, net, ctxAuth, location, pending, login, mutation, ui, uiStorage, dom>>

\* the retry delay of a failed fetch is over: the queryFn is called again
QueryRetry ==
  /\ inflight < MaxInflight
  /\ \E k \in Keys :
       /\ cache[k].retryDue
       /\ cache' = [cache EXCEPT ![k] = [@ EXCEPT !.retryDue = FALSE, !.fetching = TRUE]]
       /\ ev' = [Quiet("queryRetry") EXCEPT !.sent = {queryFn(k)}]
  /\ UNCHANGED <<storeVars, net, ctxAuth, location, pending, login, mutation, ui, uiStorage, dom>>

\* --------------------------------------------------------- Login page
\* a mutation observer before its first mutate
idleMutation == [status |-> "idle", failureCount |-> 0]

\* a mutation that reports success whatever its mutationFn did
mutationStatusOptimistic(o) == "success"

\* the status of a mutation whose mutationFn settled with outcome o:
\* mutateAsync resolves on 'success' and rejects on 'error'
mutationStatus(o) == IF o.kind = "resolved" THEN "success" ELSE "error"

\* what POST /auth/login answers: { token, user }, a rejection, or nothing
LoginArrivals ==
  {Null}
    \cup { Some([status |-> 200, statusText |-> "OK",
                 body |-> JsonBody([token |-> t, user |-> u])]) :
           t \in Tokens, u \in Users }
    \cup { Some([status |-> 401, statusText |-> "Unauthorized",
                 body |-> JsonBody([message |-> "Invalid credentials"])]) }

\* LoginPage.handleSubmit up to its await: login.mutateAsync(data)
LoginSubmit ==
  /\ location.pathname = LoginPath
  /\ login # "pending"
  /\ net["login"] = Null
  /\ inflight < MaxInflight
  /\ LET call == fetchCall("POST", "/auth/login", NoHeaders) IN
       /\ net' = [net EXCEPT !["login"] = Some(call)]
       /\ ev' = [Quiet("loginSubmit") EXCEPT !.sent = {call}]
  /\ login' = "pending"
  /\ UNCHANGED <<storeVars, cache, ctxAuth, location, pending, mutation, ui, uiStorage, dom>>

\* the login mutation settles: useLogin's onSuccess calls setAuth; a failure
\* stays in the mutation's error state and handleSubmit's catch ends it
LoginSettles ==
  /\ net["login"] # Null
  /\ \E a \in LoginArrivals :
       LET o == settle(a) IN
       /\ IF o.kind = "resolved"
          THEN setAuth(o.data[1].token, o.data[1].user)
          ELSE UNCHANGED storeVars
       /\ login' = mutationStatus(o)
       /\ ev' = [Quiet("loginSettles") EXCEPT
                   !.settled = Some([arrival |-> a, outcome |-> o])]
  /\ net' = [net EXCEPT !["login"] = Null]
  /\ UNCHANGED <<cache, ctxAuth, location, pending, mutation, ui, uiStorage, dom>>

\* handleSubmit after its await: navigate({ to: '/dashboard' })
LoginNavigate ==
  /\ login = "success"
  /\ load(Loc("/dashboard", NoSearch))
  /\ login' = "idle"
  /\ UNCHANGED <<storeVars, net, ctxAuth, mutation, ui, uiStorage, dom>>

\* ---------------------------------------------------------- AuthLayout
\* handleLogout: logout() then navigate({ to: '/login' }); the layout is
\* mounted while the committed location is in the protected subtree
HandleLogout ==
  /\ protected(location.pathname)
  /\ logout
  /\ location' = Loc(LoginPath, NoSearch)
  /\ pending' = Null
  /\ cache' = commitViews(cache, LoginPath)
  /\ ev' = [Quiet("handleLogout") EXCEPT
              !.nav = Some([to |-> Loc(LoginPath, NoSearch), verdict |-> "ALLOWED",
                            loaders |-> {}, fetched |-> {}, refetched |-> {}])]
  /\ UNCHANGED <<net, ctxAuth, login, mutation, ui, uiStorage, dom>>

\* the page is loaded again at '/': memory is lost, localStorage is kept
Restart ==
  /\ boot(storage)
  /\ net' = [c \in Callers |-> Null]
  /\ cache' = [k \in Keys |-> emptyEntry]
  /\ ctxAuth' = authContext(hydrate(storage).isAuthenticated, hydrate(storage).user)
  /\ location' = Home
  /\ pending' = Null
  /\ login' = "idle"
  /\ mutation' = idleMutation
  /\ ui' = hydrateUI(uiStorage)
  /\ dom' = freshDom(dom.systemDark)
  /\ ev' = Quiet("restart")
  /\ UNCHANGED <<storage, uiStorage>>



\* ------------------------------------- Session Store on its own API
InitMemory ==
  /\ token = hydrate(storage).token
  /\ user = hydrate(storage).user
  /\ isAuthenticated = hydrate(storage).isAuthenticated
  /\ lastOp = "hydrate"
  /\ net = [c \in Callers |-> Null]
  /\ cache = [k \in Keys |-> emptyEntry]
  /\ ctxAuth = authContext(hydrate(storage).isAuthenticated, hydrate(storage).user)
  /\ location = Home
  /\ pending = Null
  /\ login = "idle"
  /\ mutation = idleMutation
  /\ ui = hydrateUI(uiStorage)
  /\ dom = freshDom(FALSE)
  /\ ev = Quiet("start")

InitStore == storage = Null /\ uiStorage = Null /\ InitMemory

InitForeign ==
  /\ storage \in {Some(r) : r \in ForeignRecords}
  /\ uiStorage = Null
  /\ InitMemory

SetAuth ==
  /\ \E t \in Tokens, u \in Users : setAuth(t, u)
  /\ ev' = Quiet("setAuth")
  /\ UNCHANGED <<net, appVars>>

Logout ==
  /\ logout
  /\ ev' = Quiet("logout")
  /\ UNCHANGED <<net, appVars>>

UpdateUser ==
  /\ \E p \in Partials : updateUser(p)
  /\ ev' = Quiet("updateUser")
  /\ UNCHANGED <<net, appVars>>

\* the page is loaded again: memory is lost, localStorage is kept
Reload ==
  /\ boot(storage)
  /\ net' = [c \in Callers |-> Null]
  /\ ev' = Quiet("reload")
  /\ UNCHANGED <<storage, appVars>>

\* any caller of the exported api object: request(endpoint, { headers })
ApiCall ==
  /\ net["api"] = Null
  /\ inflight < MaxInflight
  /\ \E e \in Endpoints, h \in CallerHeaders :
       LET call == fetchCall("GET", e, h) IN
       /\ net' = [net EXCEPT !["api"] = Some(call)]
       /\ ev' = [Quiet("request") EXCEPT !.sent = {call}]
  /\ UNCHANGED <<storeVars, appVars>>

ApiSettles ==
  /\ net["api"] # Null
  /\ \E a \in Arrivals :
       ev' = [Quiet("settle") EXCEPT
                !.settled = Some([arrival |-> a, outcome |-> settle(a)])]
  /\ net' = [net EXCEPT !["api"] = Null]
  /\ UNCHANGED <<storeVars, appVars>>

Init == InitStore

NextStore == SetAuth \/ Logout \/ UpdateUser \/ Reload \/ ApiCall \/ ApiSettles

StoreSpec == InitStore /\ [][NextStore]_vars

ForeignSpec == InitForeign /\ [][NextStore]_vars

\* ----------------------------------------- UI Store on its own API
sessionVars ==
  <<token, user, isAuthenticated, storage, lastOp, net, cache, ctxAuth,
    location, pending, login, mutation>>

ToggleSidebar ==
  /\ toggleSidebar
  /\ ev' = Quiet("toggleSidebar")
  /\ UNCHANGED <<sessionVars, dom>>

SetSidebarOpen ==
  /\ \E open \in BOOLEAN : setSidebarOpen(open)
  /\ ev' = Quiet("setSidebarOpen")
  /\ UNCHANGED <<sessionVars, dom>>

SetTheme ==
  /\ \E theme \in Themes : setTheme(theme)
  /\ ev' = Quiet("setTheme")
  /\ UNCHANGED <<sessionVars, dom>>

SetLocale ==
  /\ \E locale \in Locales : setLocale(locale)
  /\ ev' = Quiet("setLocale")
  /\ UNCHANGED <<sessionVars, dom>>

\* useLocaleEffect on mount: with nothing persisted yet, the language that
\* i18next detected is adopted
LocaleEffect ==
  /\ uiStorage = Null
  /\ \E detected \in Detected :
       /\ detected # ui.locale
       /\ setLocale(detected)
  /\ ev' = Quiet("localeEffect")
  /\ UNCHANGED <<sessionVars, dom>>

\* the page is loaded again: the UI store is created and hydrated from
\* localStorage; hydration itself writes nothing
ReloadUI ==
  /\ ui' = hydrateUI(uiStorage)
  /\ dom' = freshDom(dom.systemDark)
  /\ ev' = Quiet("reloadUI")
  /\ UNCHANGED <<sessionVars, uiStorage>>

\* the effect of useThemeEffect is due after the mount and after every change
\* of theme: the previous run's cleanup, then the body
ThemeEffect ==
  /\ dom.applied # Some(ui.theme)
  /\ dom' = themeEffect(cleanup(dom), ui.theme)
  /\ ev' = Quiet("themeEffect")
  /\ UNCHANGED <<sessionVars, ui, uiStorage>>

\* the [locale] effect of useLocaleEffect is due after the mount and after
\* every change of locale
LocaleSync ==
  /\ dom.lang # Some(ui.locale)
  /\ dom' = localeEffect(dom, ui.locale)
  /\ ev' = Quiet("localeSync")
  /\ UNCHANGED <<sessionVars, ui, uiStorage>>

\* the system colour scheme changes: the media query's 'change' event calls
\* the listener if one is attached
SystemChange ==
  /\ dom' = LET d == [dom EXCEPT !.systemDark = ~dom.systemDark]
            IN  IF d.listener THEN apply(d) ELSE d
  /\ ev' = Quiet("systemChange")
  /\ UNCHANGED <<sessionVars, ui, uiStorage>>

\* the browser paints the page for the first time after the load
Paint ==
  /\ ~dom.painted
  /\ dom' = [dom EXCEPT !.painted = TRUE]
  /\ ev' = Quiet("paint")
  /\ UNCHANGED <<sessionVars, ui, uiStorage>>

NextPrefs ==
  \/ ToggleSidebar
  \/ SetSidebarOpen
  \/ SetTheme
  \/ SetLocale
  \/ LocaleEffect
  \/ ReloadUI

PrefsSpec == InitStore /\ [][NextPrefs]_vars

\* the Preference Store with the effects that project it on the environment
EnvNext ==
  \/ SetTheme
  \/ SetLocale
  \/ LocaleEffect
  \/ ThemeEffect
  \/ LocaleSync
  \/ SystemChange
  \/ Paint
  \/ ReloadUI

EnvSpec == InitStore /\ [][EnvNext]_vars

\* ------------------------------------- the application, signed out
\* locations a visitor who has not signed in asks for
GuestTargets ==
  { Loc(LoginPath, NoSearch),
    Loc("/dashboard", NoSearch),
    Loc("/users", NoSearch),
    Loc("/users/7", NoSearch) }

Roam ==
  /\ \E to \in GuestTargets : load(to)
  /\ UNCHANGED <<storeVars, net, ctxAuth, login, mutation, ui, uiStorage, dom>>

GuestNext ==
  \/ Roam
  \/ CommitNav
  \/ QuerySettles
  \/ QueryRetry

GuestSpec == InitStore /\ [][GuestNext]_vars

\* ------------------------------- the application once signed in
\* router.preloadRoute(to), started by the intent (hover, touch) on a link:
\* the guard and the loaders of `to` run, nothing is committed
preload(to) ==
  LET thrown == IF protected(to.pathname)
                THEN beforeLoad([auth |-> ctxAuth], to)
                ELSE Null
      keys == IF thrown = Null THEN loaderKeys(to.pathname) ELSE {}
      started == {k \in keys : needsFetch(cache[k])}
      after == [k \in Keys |->
                  IF k \in keys THEN ensureQueryData(cache[k]) ELSE cache[k]]
  IN  /\ inflight + Cardinality(started) <= MaxInflight
      /\ cache' = after
      /\ ev' = [Quiet("preload") EXCEPT
                  !.sent = {queryFn(k) : k \in started},
                  !.nav = Some([to |-> to,
                                verdict |-> IF thrown # Null THEN "DENIED" ELSE "ALLOWED",
                                loaders |-> keys,
                                fetched |-> started,
                                refetched |-> {}])]

Preload ==
  /\ \E to \in CacheTargets : preload(to)
  /\ UNCHANGED <<storeVars, net, ctxAuth, location, pending, login, mutation, ui, uiStorage, dom>>

Visit ==
  /\ \E to \in CacheTargets : load(to)
  /\ UNCHANGED <<storeVars, net, ctxAuth, login, mutation, ui, uiStorage, dom>>

Browse ==
  /\ \E to \in AdminTargets : load(to)
  /\ UNCHANGED <<storeVars, net, ctxAuth, login, mutation, ui, uiStorage, dom>>

\* the calls of useCreateUser, useUpdateUser and useDeleteUser's mutationFn
MutationCalls ==
  { [method |-> "POST", endpoint |-> "/users"],
    [method |-> "PUT", endpoint |-> "/users/7"],
    [method |-> "DELETE", endpoint |-> "/users/7"] }

\* the key prefixes the mutation's onSuccess invalidates, in order
invalidated(call) ==
  IF call.method = "PUT"
  THEN << <<"users", "7">>, <<"users">> >>
  ELSE << <<"users">> >>

\* queryClient.invalidateQueries({ queryKey: prefix }) on the whole cache
invalidateQueries(c, prefix) ==
  [k \in Keys |-> IF isPrefix(prefix, k) THEN invalidate(c[k]) ELSE c[k]]

\* the keys whose queryFn invalidateQueries calls
refetched(c, prefix) ==
  {k \in Keys : isPrefix(prefix, k) /\ exists(c[k]) /\ refetches(c[k])}

RECURSIVE onSuccess(_, _)
\* the invalidations of onSuccess applied one after the other
onSuccess(c, prefixes) ==
  IF prefixes = <<>> THEN c
  ELSE onSuccess(invalidateQueries(c, Head(prefixes)), Tail(prefixes))

\* what the user endpoints answer
MutationArrivals == {a \in Arrivals : a = Null \/ a[1].status \in {200, 204, 404}}

\* handleCreate, handleUpdate, handleDelete of AdminUsersPage: mutate(...)
UserMutate ==
  /\ location.pathname = "/admin/users"
  /\ cache[<<"users">>].observers
  /\ net["mutation"] = Null
  /\ inflight < MaxInflight
  /\ \E m \in MutationCalls :
       LET call == fetchCall(m.method, m.endpoint, NoHeaders) IN
       /\ net' = [net EXCEPT !["mutation"] = Some(call)]
       /\ ev' = [Quiet("mutate") EXCEPT !.sent = {call}]
  /\ mutation' = [status |-> "pending", failureCount |-> 0]
  /\ UNCHANGED <<storeVars, cache, ctxAuth, location, pending, login, ui, uiStorage, dom>>

\* the mutationFn settles: onSuccess invalidates, a failure is final unless
\* the retry option says otherwise
MutationSettles ==
  /\ net["mutation"] # Null
  /\ \E a \in MutationArrivals :
       LET o == settle(a)
           call == net["mutation"][1]
           prefixes == invalidated(call)
           first == refetched(cache, Head(prefixes))
           again == IF Len(prefixes) > 1
                    THEN refetched(invalidateQueries(cache, Head(prefixes)), prefixes[2])
                    ELSE {}
       IN  IF o.kind = "resolved"
           THEN /\ cache' = onSuccess(cache, prefixes)
                /\ Cardinality({k \in Keys : cache'[k].fetching}) < MaxInflight + 1
                /\ mutation' = [mutation EXCEPT !.status = mutationStatus(o)]
                /\ net' = [net EXCEPT !["mutation"] = Null]
                /\ ev' = [Quiet("mutationSettles") EXCEPT
                            !.sent = {queryFn(k) : k \in first \cup again},
                            !.settled = Some([arrival |-> a, outcome |-> o])]
           ELSE IF shouldRetryMutation(mutation.failureCount, o)
                THEN /\ mutation' = [mutation EXCEPT !.failureCount = @ + 1]
                     /\ net' = net
                     /\ cache' = cache
                     /\ ev' = [Quiet("mutationSettles") EXCEPT
                                 !.sent = {call},
                                 !.settled = Some([arrival |-> a, outcome |-> o])]
                ELSE /\ mutation' = [status |-> mutationStatus(o),
                                     failureCount |-> mutation.failureCount + 1]
                     /\ net' = [net EXCEPT !["mutation"] = Null]
                     /\ cache' = cache
                     /\ ev' = [Quiet("mutationSettles") EXCEPT
                                 !.settled = Some([arrival |-> a, outcome |-> o])]
  /\ UNCHANGED <<storeVars, ctxAuth, location, pending, login, ui, uiStorage, dom>>

Min(a, b) == IF a < b THEN a ELSE b

\* the loaders a navigation awaits have settled: its commit comes next
commitDue ==
  /\ pending # Null
  /\ \A k \in loaderKeys(pending[1].pathname) : settled(cache[k])

\* TickLen minutes pass: data gets older, the garbage-collection timers of
\* the queries nobody observes run on
aged(e) ==
  [e EXCEPT !.age = IF e.data THEN Min(e.age + TickLen, staleTime) ELSE e.age,
            !.idle = IF exists(e) /\ ~e.observers
                     THEN Min(e.idle + TickLen, gcTime) ELSE e.idle]

Tick ==
  /\ ~commitDue
  /\ \E k \in Keys : aged(cache[k]) # cache[k]
  /\ cache' = [k \in Keys |-> aged(cache[k])]
  /\ ev' = Quiet("tick")
  /\ UNCHANGED <<storeVars, net, ctxAuth, location, pending, login, mutation, ui, uiStorage, dom>>

\* the garbage-collection timer of a query fires: Query.optionalRemove drops
\* it when nobody observes it and it is not fetching
Collect ==
  /\ \E k \in Keys :
       /\ exists(cache[k])
       /\ ~cache[k].observers
       /\ idleFetch(cache[k])
       /\ cache[k].idle >= gcTime
       /\ cache' = [cache EXCEPT ![k] = emptyEntry]
  /\ ev' = Quiet("collect")
  /\ UNCHANGED <<storeVars, net, ctxAuth, location, pending, login, mutation, ui, uiStorage, dom>>

\* a session is open: Ann has signed in and App has rendered since
InitCache ==
  /\ token = Some("tok-1")
  /\ user = Some(Ann)
  /\ isAuthenticated = TRUE
  /\ storage = Some(partialize([user |-> Some(Ann)]))
  /\ uiStorage = Null
  /\ lastOp = "setAuth"
  /\ net = [c \in Callers |-> Null]
  /\ cache = [k \in Keys |-> emptyEntry]
  /\ ctxAuth = authContext(TRUE, Some(Ann))
  /\ location = Home
  /\ pending = Null
  /\ login = "idle"
  /\ mutation = idleMutation
  /\ ui = hydrateUI(uiStorage)
  /\ dom = freshDom(FALSE)
  /\ ev = Quiet("start")

\* reads: navigation, intent preload, time
CacheNext ==
  \/ Visit
  \/ CommitNav
  \/ Preload
  \/ Tick
  \/ Collect
  \/ QuerySettles
  \/ QueryRetry

CacheSpec == InitCache /\ [][CacheNext]_vars

\* writes: the user mutations of the administration and their invalidations
AdminNext ==
  \/ Browse
  \/ CommitNav
  \/ UserMutate
  \/ MutationSettles
  \/ QuerySettles
  \/ QueryRetry

AdminSpec == InitCache /\ [][AdminNext]_vars

\* the keys whose server-side value a successful call changes: a created or
\* deleted user changes the list and the dashboard's totalUsers, a deleted or
\* updated user its own detail, a deleted user its posts
outdatedBy(call) ==
  CASE call.method = "POST" -> { <<"users">>, <<"dashboard">> }
    [] call.method = "PUT" -> { <<"users">>, <<"users", "7">> }
    [] OTHER -> Keys

\* a session in which the dashboard was visited and left: its query holds
\* data that nobody observes
InitDashboardSeen ==
  /\ token = Some("tok-1")
  /\ user = Some(Ann)
  /\ isAuthenticated = TRUE
  /\ storage = Some(partialize([user |-> Some(Ann)]))
  /\ uiStorage = Null
  /\ lastOp = "setAuth"
  /\ net = [c \in Callers |-> Null]
  /\ cache = [k \in Keys |->
                IF k = <<"dashboard">>
                THEN [emptyEntry EXCEPT !.data = TRUE]
                ELSE emptyEntry]
  /\ ctxAuth = authContext(TRUE, Some(Ann))
  /\ location = Home
  /\ pending = Null
  /\ login = "idle"
  /\ mutation = idleMutation
  /\ ui = hydrateUI(uiStorage)
  /\ dom = freshDom(FALSE)
  /\ ev = Quiet("start")

\* the user mutations while the dashboard's totals are cached
InvalidationSpec == InitDashboardSeen /\ [][AdminNext]_vars

\* Ann's session with the dashboard on screen: its query holds the data that
\* GET /dashboard answered to her token, and DashboardPage observes it
InitAtDashboard ==
  /\ token = Some("tok-1")
  /\ user = Some(Ann)
  /\ isAuthenticated = TRUE
  /\ storage = Some(partialize([user |-> Some(Ann)]))
  /\ uiStorage = Null
  /\ lastOp = "setAuth"
  /\ net = [c \in Callers |-> Null]
  /\ cache = [k \in Keys |->
                IF k = <<"dashboard">>
                THEN [emptyEntry EXCEPT !.data = TRUE, !.observers = TRUE]
                ELSE emptyEntry]
  /\ ctxAuth = authContext(TRUE, Some(Ann))
  /\ location = Loc("/dashboard", NoSearch)
  /\ pending = Null
  /\ login = "idle"
  /\ mutation = idleMutation
  /\ ui = hydrateUI(uiStorage)
  /\ dom = freshDom(FALSE)
  /\ ev = Quiet("start")

\* sessions following one another in one page, with no reload in between;
\* the login page is reached by signing out only
SessionNext ==
  \/ Visit
  \/ CommitNav
  \/ Propagate
  \/ QuerySettles
  \/ QueryRetry
  \/ LoginSubmit
  \/ LoginSettles
  \/ LoginNavigate
  \/ HandleLogout

SessionSpec == InitAtDashboard /\ [][SessionNext]_vars

\* ------------------------------------------------ the application
Next ==
  \/ Navigate
  \/ CommitNav
  \/ Propagate
  \/ QuerySettles
  \/ QueryRetry
  \/ LoginSubmit
  \/ LoginSettles
  \/ LoginNavigate
  \/ HandleLogout
  \/ Restart

Spec == Init /\ [][Next]_vars

\* =================================================================
\* Properties
\* =================================================================

\* C1: after every Session Store operation (and after start-up hydration)
\* isAuthenticated is true exactly when token and user are both non-null.
C1_AuthFlagMatchesFields ==
  isAuthenticated <=> (token # Null /\ user # Null)

C1_Witness ==
  /\ lastOp = "updateUser"
  /\ isAuthenticated
  /\ token # Null
  /\ user # Null

\* C2 as stated: in every reachable state token is non-null if and only if
\* user is non-null.
C2_TokenIffUser ==
  (token # Null) <=> (user # Null)

\* C2 amended: a token never exists without a user; a user exists without a
\* token only in states entered by start-up hydration of a persisted user
\* (updateUser may have patched it since), until setAuth or logout.
C2_TokenImpliesUser ==
  /\ token # Null => user # Null
  /\ (user # Null /\ token = Null) => lastOp \in {"hydrate", "updateUser"}
  /\ lastOp \in {"setAuth", "logout"} => ((token # Null) <=> (user # Null))

C2_Witness ==
  /\ lastOp = "hydrate"
  /\ user # Null
  /\ token = Null

C4_LoaderRunsOnlyAuthenticated ==
  (/\ ev.nav # Null
   /\ protected(ev.nav[1].to.pathname)
   /\ ev.nav[1].loaders # {}) =>
     isAuthenticated

\* C5: a request made with no caller-supplied headers carries
\* 'Authorization: Bearer t' for the token t the store holds at the moment of
\* the call, and no Authorization header when the store holds no token.
C5_HeaderFromCurrentToken ==
  \A c \in ev.sent :
    c.caller = NoHeaders =>
      IF token # Null
      THEN /\ "authorization" \in DOMAIN c.headers
           /\ c.headers["authorization"] = "Bearer " \o token[1]
      ELSE "authorization" \notin DOMAIN c.headers

C5_Witness ==
  /\ lastOp = "setAuth"
  /\ token = Some("tok-2")
  /\ \E c \in ev.sent :
       c.caller = NoHeaders /\ c.headers["authorization"] = "Bearer tok-2"

\* C6: once written, the persisted record holds exactly the store's current
\* user and nothing else: no token is ever in storage.
C6_OnlyUserPersisted ==
  storage # Null =>
    /\ DOMAIN storage[1] = {"user"}
    /\ storage[1].user = user

C6_Witness ==
  /\ token # Null
  /\ storage # Null
  /\ storage[1].user = user

\* C7 as stated: whatever the persisted record holds, the state right after
\* start-up hydration has the record's user, a null token and
\* isAuthenticated false.
C7_HydrationTakesOnlyUser ==
  lastOp = "hydrate" =>
    /\ token = Null
    /\ ~isAuthenticated
    /\ storage # Null => user = storage[1].user

\* C8: logout leaves exactly { token: null, user: null, isAuthenticated:
\* false }, and reads of the store made afterwards find it so.
C8_LogoutClearsAll ==
  lastOp = "logout" =>
    /\ token = Null
    /\ user = Null
    /\ ~isAuthenticated

C8_Witness ==
  /\ lastOp = "logout"
  /\ ev.op = "request"
  /\ storage = Some([user |-> Null])

\* C9: updateUser never changes token or isAuthenticated; with no user it
\* leaves user null; with a user it overwrites exactly the fields its
\* argument names.
C9_UpdateUserFrame ==
  [][ev'.op = "updateUser" =>
       /\ token' = token
       /\ isAuthenticated' = isAuthenticated
       /\ user = Null => user' = Null
       /\ user # Null =>
            /\ user' # Null
            /\ DOMAIN user'[1] = DOMAIN user[1]
            /\ \E p \in Partials :
                 \A f \in DOMAIN user[1] :
                   user'[1][f] = IF f \in DOMAIN p THEN p[f] ELSE user[1][f]
     ]_vars

C9_Witness ==
  /\ ev.op = "updateUser"
  /\ lastOp = "updateUser"
  /\ user = Null
  /\ token = Null
  /\ storage = Some([user |-> Null])

\* C10 as stated: a non-2xx response with a JSON error body fails with an
\* error whose status is the response's status and whose message is the
\* body's message.
C10_MessageFromBody ==
  ev.settled # Null =>
    LET a == ev.settled[1].arrival
        o == ev.settled[1].outcome
    IN  (a # Null /\ ~ok(a[1]) /\ a[1].body.json
           /\ "message" \in DOMAIN a[1].body.value) =>
          /\ o.kind = "ApiError"
          /\ o.status = a[1].status
          /\ o.message = a[1].body.value.message

\* C10 amended: a non-2xx response fails with an ApiError whose status is
\* the response's status, whose message is the response's status text and
\* whose data is the parsed JSON body, or null when the body is not JSON.
C10_MessageFromStatusText ==
  ev.settled # Null =>
    LET a == ev.settled[1].arrival
        o == ev.settled[1].outcome
    IN  (a # Null /\ ~ok(a[1])) =>
          /\ o.kind = "ApiError"
          /\ o.status = a[1].status
          /\ o.message = a[1].statusText
          /\ o.data = IF a[1].body.json THEN Some(a[1].body.value) ELSE Null

C10_Witness ==
  /\ ev.settled # Null
  /\ ev.settled[1].arrival # Null
  /\ ev.settled[1].arrival[1].status = 404
  /\ ev.settled[1].outcome.status = 404
  /\ ev.settled[1].outcome.message = "Not Found"
  /\ ev.settled[1].outcome.data = Some([message |-> "not found"])

\* C11 as stated: every request() ends in exactly one of three outcomes: it
\* resolves with the parsed body, it rejects with an ApiError exactly when a
\* non-2xx response was received, or it rejects with a failure that is not an
\* ApiError exactly when no response was received; a failure never becomes a
\* resolved value.
C11_ThreeOutcomes ==
  ev.settled # Null =>
    LET a == ev.settled[1].arrival
        o == ev.settled[1].outcome
    IN  /\ (o.kind = "ApiError") <=> (a # Null /\ ~ok(a[1]))
        /\ (o.kind \notin {"resolved", "ApiError"}) <=> (a = Null)
        /\ (o.kind = "resolved") => (a # Null /\ ok(a[1]) /\ o.data = Some(a[1].body.value))

C15_No4xxRetry ==
  [][(/\ ev'.op = "querySettles"
      /\ ev'.settled[1].outcome.kind = "ApiError"
      /\ ev'.settled[1].outcome.status >= 400
      /\ ev'.settled[1].outcome.status <= 499) =>
        \A k \in Keys :
          /\ cache'[k].retryDue => cache[k].retryDue
          /\ (cache[k].fetching /\ ~cache'[k].fetching) =>
               cache'[k].failureCount = 1
    ]_vars

\* C16: a mutate issues exactly one network call, and the settling of the
\* mutation, whatever its outcome, issues the call no second time: a failed
\* mutation goes to the error state at its first failure and the only calls
\* made when it settles are the GET refetches of invalidated queries.
C16_MutationCalledOnce ==
  [][/\ ev'.op = "mutate" =>
          /\ Cardinality(ev'.sent) = 1
          /\ net'["mutation"] # Null
          /\ net'["mutation"][1] \in ev'.sent
          /\ net'["mutation"][1].method \in {"POST", "PUT", "DELETE"}
     /\ ev'.op = "mutationSettles" =>
          /\ net'["mutation"] = Null
          /\ \A c \in ev'.sent : c.method = "GET"
          /\ ev'.settled[1].outcome.kind # "resolved" =>
               /\ ev'.sent = {}
               /\ mutation'.status = "error"
               /\ mutation'.failureCount = 1
               /\ cache' = cache
    ]_vars

\* a user mutation has failed with a 404: nothing was sent again
C16_Witness ==
  /\ ev.op = "mutationSettles"
  /\ ev.settled[1].outcome.kind = "ApiError"
  /\ ev.settled[1].outcome.status = 404
  /\ ev.sent = {}
  /\ net["mutation"] = Null
  /\ mutation = [status |-> "error", failureCount |-> 1]

\* C17 as stated: the navigation to /dashboard that handleSubmit issues after
\* a successful login passes the guard, so the application ends at /dashboard
\* (or awaits its loader) and is not sent back to /login, whatever the order
\* of the store update, App's render and the navigation.
C17_LoginReachesDashboard ==
  [][(login = "success" /\ login' = "idle" /\ ev'.op = "navigate") =>
       /\ ev'.nav[1].verdict = "ALLOWED"
       /\ \/ location' = Loc("/dashboard", NoSearch)
          \/ pending' = Some(Loc("/dashboard", NoSearch))
    ]_vars

\* C18: when the login mutation settles on a non-2xx response the Session
\* Store is left as it was (token null and isAuthenticated false for a
\* visitor who was signed out), no navigation is issued and the location is
\* unchanged, nothing is sent, and the mutation holds the ApiError in its
\* error state; from that state handleSubmit does not navigate.
C18_FailedLoginChangesNothing ==
  [][/\ (/\ ev'.op = "loginSettles"
         /\ ev'.settled[1].arrival # Null
         /\ ~ok(ev'.settled[1].arrival[1])) =>
           /\ token' = token
           /\ user' = user
           /\ isAuthenticated' = isAuthenticated
           /\ storage' = storage
           /\ location' = location
           /\ pending' = pending
           /\ ev'.nav = Null
           /\ ev'.sent = {}
           /\ ev'.settled[1].outcome.kind = "ApiError"
           /\ login' = "error"
     /\ login = "error" => ~(login' = "idle" /\ ev'.op = "navigate")
    ]_vars

\* a signed-out visitor's login was answered 401: still signed out, still at
\* /login, the mutation in its error state
C18_Witness ==
  /\ ev.op = "loginSettles"
  /\ ev.settled[1].outcome.kind = "ApiError"
  /\ ev.settled[1].outcome.status = 401
  /\ login = "error"
  /\ token = Null
  /\ ~isAuthenticated
  /\ location.pathname = "/login"
  /\ net["login"] = Null

\* C19 as stated: when the login page was reached by the guard's redirect,
\* carrying the location P asked for in its redirect parameter, the
\* navigation issued after the next successful login goes to P.
C19_LoginFollowsReturnTarget ==
  [][(/\ login = "success"
      /\ login' = "idle"
      /\ ev'.op = "navigate"
      /\ location.pathname = "/login"
      /\ "redirect" \in DOMAIN location.search) =>
        href(ev'.nav[1].to) = location.search.redirect
    ]_vars

\* C20: for every theme, sidebarOpen and locale the store can hold, loading
\* the persisted record gives back the same three values, and persisting the
\* loaded state gives the same record again.
C20_PreferencesRoundTrip ==
  uiStorage # Null =>
    LET loaded == hydrateUI(uiStorage) IN
    /\ loaded.theme = ui.theme
    /\ loaded.sidebarOpen = ui.sidebarOpen
    /\ loaded.locale = ui.locale
    /\ DOMAIN loaded = DOMAIN ui
    /\ stringify(loaded) = uiStorage[1]
    /\ DOMAIN uiStorage[1].state = {"sidebarOpen", "theme", "locale"}

\* the page was reloaded with dark theme, closed sidebar and a locale that
\* reads like a JSON literal persisted
C20_Witness ==
  /\ ev.op = "reloadUI"
  /\ uiStorage # Null
  /\ ui.theme = "dark"
  /\ ~ui.sidebarOpen
  /\ ui.locale = "true"
  /\ ui = hydrateUI(uiStorage)

\* C21 as stated: after a successful create, update or delete of a user, no
\* query whose server-side value the mutation changed (the users list, the
\* user's detail, the user's posts, the dashboard totals that count users)
\* still holds data that counts as fresh: each is invalidated.
C21_MutationInvalidatesAllOutdated ==
  [][(/\ ev'.op = "mutationSettles"
      /\ ev'.settled[1].outcome.kind = "resolved") =>
        \A k \in outdatedBy(net["mutation"][1]) :
          cache'[k].data => cache'[k].invalidated
    ]_vars

\* C23: the invalidations of a successful user mutation (prefix ["users"],
\* and ["users", id] before it for an update) mark as invalidated, hence
\* stale, every cached query whose key starts with "users" (the list, the
\* detail of the user, the user's posts) and keep its data; every query whose
\* key does not start with the prefix (["dashboard"]) is left exactly as it
\* was; a key with no query in the cache gets none.
C23_PrefixInvalidation ==
  [][(/\ ev'.op = "mutationSettles"
      /\ ev'.settled[1].outcome.kind = "resolved") =>
        \A k \in Keys :
          /\ (Head(k) = "users" /\ cache[k] # emptyEntry) =>
               /\ cache'[k].invalidated
               /\ isStale(cache'[k])
               /\ cache'[k].data = cache[k].data
               /\ cache'[k].observers = cache[k].observers
          /\ (Head(k) = "users" /\ cache[k] = emptyEntry) =>
               cache'[k] = emptyEntry
          /\ Head(k) # "users" => cache'[k] = cache[k]
    ]_vars

\* user 7 was deleted while the list, the user's detail, the user's posts
\* and the dashboard were cached: the three users queries are invalidated,
\* the dashboard query is as it was
C23_Witness ==
  /\ ev.op = "mutationSettles"
  /\ ev.settled[1].outcome.kind = "resolved"
  /\ \A k \in Keys : cache[k].data
  /\ cache[<<"users">>].invalidated
  /\ cache[<<"users", "7">>].invalidated
  /\ cache[<<"users", "7", "posts">>].invalidated
  /\ cache[<<"dashboard">>] = [emptyEntry EXCEPT !.data = TRUE]
  /\ mutation.status = "success"

\* C24: the invalidations of a successful user mutation start a refetch for
\* each matching query that a mounted view observes at that moment and start
\* no fetch for a matching query nobody observes: that one stays invalidated,
\* and the only step that later starts its fetch is an access, the commit of a
\* navigation whose view subscribes to it.
C24_RefetchOnlyObserved ==
  [][\A k \in Keys :
       /\ (/\ ev'.op = "mutationSettles"
           /\ ev'.settled[1].outcome.kind = "resolved"
           /\ Head(k) = "users"
           /\ cache[k] # emptyEntry) =>
             IF cache[k].observers
             THEN /\ queryFn(k) \in ev'.sent
                  /\ cache'[k].fetching
             ELSE /\ queryFn(k) \notin ev'.sent
                  /\ cache'[k].fetching = cache[k].fetching
                  /\ cache'[k].retryDue = cache[k].retryDue
                  /\ cache'[k].invalidated
       /\ (/\ cache[k].data
           /\ cache[k].invalidated
           /\ ~cache[k].observers
           /\ idleFetch(cache[k])) =>
             \/ /\ cache'[k].invalidated
                /\ idleFetch(cache'[k])
                /\ queryFn(k) \notin ev'.sent
             \/ /\ ev'.op \in {"navigate", "commit"}
                /\ k \in loaderKeys(location'.pathname)
                /\ cache'[k].observers
                /\ cache'[k].fetching
                /\ queryFn(k) \in ev'.sent
    ]_vars

\* a user was created while the administration showed the list and the
\* detail of user 7 was cached but shown nowhere: the list is refetched, the
\* detail is only flagged
C24_Witness ==
  /\ ev.op = "mutationSettles"
  /\ ev.settled[1].outcome.kind = "resolved"
  /\ ev.sent = {queryFn(<<"users">>)}
  /\ cache[<<"users">>].observers
  /\ cache[<<"users">>].fetching
  /\ cache[<<"users", "7">>].data
  /\ ~cache[<<"users", "7">>].observers
  /\ cache[<<"users", "7">>].invalidated
  /\ ~cache[<<"users", "7">>].fetching

\* C25 as stated: when a user mutation's invalidation finds the fetch of a
\* matching query in flight (the fetch started before it and the invalidation
\* did not restart it), then once that fetch has completed with data the
\* query is not fresh: it is stale, or a refetch of it is under way.
C25_InflightFetchNotLeftFresh ==
  [][\A k \in Keys :
       (/\ ev.op = "mutationSettles"
        /\ ev.settled[1].outcome.kind = "resolved"
        /\ Head(k) = "users"
        /\ cache[k].fetching
        /\ queryFn(k) \notin ev.sent
        /\ ev'.op = "querySettles"
        /\ ev'.settled[1].outcome.kind = "resolved"
        /\ ~cache'[k].fetching) =>
          isStale(cache'[k])
    ]_vars

C27_LoadersUnderGuard ==
  (/\ ev.nav # Null
   /\ ~isAuthenticated
   /\ loaderKeys(ev.nav[1].to.pathname) # {}) =>
     /\ protected(ev.nav[1].to.pathname)
     /\ ev.nav[1].verdict = "DENIED"
     /\ ev.nav[1].loaders = {}
     /\ ev.sent = {}

\* C30 as stated: every response with a 2xx status makes the user mutation's
\* request() resolve, a 204 No Content without a body included: the mutation
\* succeeds, onSuccess runs and every cached ["users", ...] query is
\* invalidated.
C30_NoContentResolves ==
  [][(/\ ev'.op = "mutationSettles"
      /\ ev'.settled[1].arrival # Null
      /\ ok(ev'.settled[1].arrival[1])) =>
        /\ ev'.settled[1].outcome.kind = "resolved"
        /\ mutation'.status = "success"
        /\ \A k \in Keys :
             (Head(k) = "users" /\ cache[k] # emptyEntry) => cache'[k].invalidated
    ]_vars

\* C22 as stated: the persisted theme and locale are applied to the global
\* environment before the first paint: when the page was loaded with
\* persisted preferences and is painted for the first time, the root's 'dark'
\* class is as the persisted theme asks, and the i18n language and the
\* document's lang attribute are the persisted locale.
C22_AppliedBeforeFirstPaint ==
  [][(/\ ev.op = "reloadUI"
      /\ ev'.op = "paint"
      /\ uiStorage # Null) =>
        /\ dom'.dark <=> prefersDark(hydrateUI(uiStorage).theme, dom'.systemDark)
        /\ dom'.lang = Some(hydrateUI(uiStorage).locale)
        /\ dom'.language = Some(hydrateUI(uiStorage).locale)
    ]_vars

\* C28: whenever the theme effect has run for the store's current theme, the
\* root carries 'dark' exactly when the theme is 'dark', or is 'system' and
\* the system prefers dark, and the colour-scheme listener is attached
\* exactly when the theme is 'system'; a listener is only ever attached by
\* the effect's run for 'system', and the run for another theme removes it;
\* a system change while the applied theme is 'light' or 'dark' leaves the
\* class as it is.
C28_ThemeEffectProjectsTheme ==
  [][/\ dom'.applied = Some(ui'.theme) =>
          /\ dom'.dark <=> prefersDark(ui'.theme, dom'.systemDark)
          /\ dom'.listener <=> ui'.theme = "system"
     /\ dom'.listener => dom'.applied = Some("system")
     /\ (ev'.op = "themeEffect" /\ ui.theme # "system") => ~dom'.listener
     /\ (/\ ev'.op = "systemChange"
         /\ dom.applied = Some(ui.theme)
         /\ ui.theme \in {"light", "dark"}) =>
           /\ dom'.dark = dom.dark
           /\ dom'.systemDark # dom.systemDark
    ]_vars

\* the system turned dark after the theme had gone from 'system' to 'light'
\* and the effect had run: the root stays without the class
C28_Witness ==
  /\ ev.op = "systemChange"
  /\ ui.theme = "light"
  /\ dom.applied = Some("light")
  /\ dom.systemDark
  /\ ~dom.dark
  /\ ~dom.listener
  /\ uiStorage # Null

\* C29 as stated: data fetched under one session is never served to
\* another. The dashboard query starts with the data fetched under Ann's
\* session and, with no reload and its data never stale, is never fetched
\* again; so whenever somebody other than Ann is signed in and a navigation
\* runs the dashboard's loader, the loader must not get the cached entry: it
\* has to fetch.
C29_NoCacheAcrossSessions ==
  [][(/\ ev'.op = "navigate"
      /\ user' # Null
      /\ user'[1].id # Ann.id
      /\ <<"dashboard">> \in ev'.nav[1].loaders) =>
        /\ ~cache[<<"dashboard">>].data
        /\ <<"dashboard">> \in ev'.nav[1].fetched
    ]_vars

====
